---- MODULE Spec2Model ----
(***************************************************************************)
(* The capture-to-event pipeline of dforge: the PacketListener of          *)
(* src-tauri/src/sniffer/network.rs (subscription registry, notify, and    *)
(* the ingest loop of run_with_capture) over the reassembly buffer, the    *)
(* message framer and the field decoder it calls.                          *)
(*                                                                         *)
(* Option<T> values are sequences of length 0 (None) or 1 (Some).          *)
(***************************************************************************)
EXTENDS Integers, Sequences, FiniteSets, TLC

VARIABLES
    subscriptions,       \* HashMap<EventId, Vec<Subscription>> behind the Mutex
    node,                \* self.node.is_some()
    poisoned,            \* the registry Mutex was poisoned by a panic under it
    lock,                \* holder of the registry Mutex: "free", "ingest", "caller"
    cur,                 \* Option<Packet>: the packet _notify is iterating for
    idx,                 \* position of _notify's for loop in the listener list
    invoked,             \* listener entries called so far by the _notify in progress
    pc,                  \* ingest task: "idle", "wait", "check", "notify", "calling", "stopped"
    buffer,              \* DataWrapper: the unconsumed bytes
    last_packet_header,  \* Option<PacketHeader>
    metadata,            \* Option<PacketMetadata> of the Ready message being handled
    packet,              \* Option<Packet> decoded and waiting for _notify
    log,                 \* history: one record per frame pulled from the capture
    ran,                 \* history: how often framer/decoder/notify/listeners ran for the last frame
    api_log,             \* history: the last external subscribe/unsubscribe calls
    last_packet_time,    \* Arc<RwLock<u128>>: the frame whose arrival time it holds
    blocked,             \* the lock holder waits for the lock it already holds
    acquired,            \* history: Option of the listener list when notify took the lock
    stable,              \* history: entries subscribed since the subscriber check
    delivered,           \* history: entries the ingest task invoked for the last frame
    protocol_file,       \* the schema records of the protocol file, in file order
    protocol_manager,    \* Option<ProtocolManager> built from the file
    previous_manager     \* history: Option of the manager built by the load before

vars == <<subscriptions, node, poisoned, lock, cur, idx, invoked, pc, buffer,
          last_packet_header, metadata, packet, log, ran, api_log,
          last_packet_time, blocked, acquired, stable, delivered,
          protocol_file, protocol_manager, previous_manager>>

(***************************************************************************)
(* Bounds and input sets                                                   *)
(***************************************************************************)
MaxFrames == 3          \* frames the capture source delivers before it ends
MaxSubs == 4            \* subscription entries held by the registry at once
MaxRecords == 3         \* schema records in the protocol file

Bytes == 0 .. 2
EventIds == {1, 2}
ListenerIds == {"a", "b", "c"}
Callbacks == {"f"}
Sources == {1, 2}
SeqNums == {1, 2, 3}
Payloads == {<<>>} \cup {<<b>> : b \in Bytes}

None == <<>>
Some(x) == <<x>>

BadFrame == [valid |-> FALSE, source_ip |-> 0, seq_num |-> 0, body |-> <<>>]
RawFrames ==
    [valid : {TRUE}, source_ip : Sources, seq_num : SeqNums, body : Payloads]
        \cup {BadFrame}

(***************************************************************************)
(* Event Dispatcher: the registry operations                               *)
(***************************************************************************)
EmptyRegistry == [e \in {} |-> <<>>]

\* HashMap::get(event): the listener list, or the empty list for a missing key
Listeners(subs, event) == IF event \in DOMAIN subs THEN subs[event] ELSE <<>>

TotalEntries(subs) ==
    LET RECURSIVE Sum(_)
        Sum(S) == IF S = {} THEN 0
                  ELSE LET e == CHOOSE x \in S : TRUE
                       IN Len(subs[e]) + Sum(S \ {e})
    IN Sum(DOMAIN subs)

subscribe_dedup(subs, event, listener_id, listener) ==
    [e \in DOMAIN subs \cup {event} |->
        IF e = event
        THEN Append(SelectSeq(Listeners(subs, event), LAMBDA s : s[1] # listener_id),
                    <<listener_id, listener>>)
        ELSE subs[e]]

subscribe(subs, event, listener_id, listener) ==
    [e \in DOMAIN subs \cup {event} |->
        IF e = event
        THEN Append(Listeners(subs, event), <<listener_id, listener>>)
        ELSE subs[e]]

unsubscribe_retains_matching(subs, event, listener_id) ==
    [e \in DOMAIN subs |->
        IF e = event
        THEN SelectSeq(subs[e], LAMBDA s : s[1] = listener_id)
        ELSE subs[e]]

unsubscribe_removes_first(subs, event, listener_id) ==
    [e \in DOMAIN subs |->
        IF e = event
        THEN LET s == subs[e]
                 I == {i \in 1 .. Len(s) : s[i][1] = listener_id}
             IN IF I = {} THEN s
                ELSE LET k == CHOOSE i \in I : \A j \in I : i <= j
                     IN SubSeq(s, 1, k - 1) \o SubSeq(s, k + 1, Len(s))
        ELSE subs[e]]

unsubscribe(subs, event, listener_id) ==
    [e \in DOMAIN subs |->
        IF e = event
        THEN SelectSeq(subs[e], LAMBDA s : s[1] # listener_id)
        ELSE subs[e]]

has_subscriptions_for(subs, event, listener_id) ==
    /\ event \in DOMAIN subs
    /\ \E i \in 1 .. Len(subs[event]) : subs[event][i][1] = listener_id

has_subscriptions_key_only(subs, event) == event \in DOMAIN subs

has_subscriptions(subs, event) ==
    /\ event \in DOMAIN subs
    /\ Len(subs[event]) # 0

NotifyListOfEveryEvent(subs, p) ==
    LET RECURSIVE All(_)
        All(S) == IF S = {} THEN <<>>
                  ELSE LET e == CHOOSE x \in S : \A y \in S : x <= y
                       IN subs[e] \o All(S \ {e})
    IN All(DOMAIN subs)

NotifyListSkipsFirst(subs, p) ==
    IF Listeners(subs, p.id) = <<>> THEN <<>> ELSE Tail(Listeners(subs, p.id))

\* the list _notify's for loop walks for a packet
NotifyList(subs, p) == Listeners(subs, p.id)

(***************************************************************************)
(* Collaborators of the ingest loop                                        *)
(***************************************************************************)
\* PacketHeader::from_vec
FromVec(raw) ==
    IF raw.valid
    THEN Some([source_ip |-> raw.source_ip, seq_num |-> raw.seq_num, body |-> raw.body])
    ELSE None

\* DataWrapper
ExtendFromSlice(buf, bytes) == buf \o bytes
Reorder(buf, bytes) == bytes \o buf
GetRemaining(buf) == buf
Clear(buf) == <<>>

\* PacketMetadata::from_buffer: one length-framed message <<id, len>> \o body,
\* id an event id and len at most MaxBody
HeaderLen == 2
MaxBody == 1
NoMetadata == [id |-> 0, body |-> <<>>]
FromBuffer(buf) ==
    IF Len(buf) = 0 THEN [kind |-> "Incomplete", md |-> NoMetadata]
    ELSE IF buf[1] \notin EventIds THEN [kind |-> "Malformed", md |-> NoMetadata]
    ELSE IF Len(buf) < HeaderLen THEN [kind |-> "Incomplete", md |-> NoMetadata]
    ELSE IF buf[2] > MaxBody THEN [kind |-> "Malformed", md |-> NoMetadata]
    ELSE IF Len(buf) < HeaderLen + buf[2] THEN [kind |-> "Incomplete", md |-> NoMetadata]
    ELSE [kind |-> "Ready",
          md |-> [id |-> buf[1], body |-> SubSeq(buf, HeaderLen + 1, HeaderLen + buf[2])]]

\* the schema catalog of the session: event id -> number of Byte attributes
Protocol == (1 :> 1) @@ (2 :> 0)

\* PacketParser::from_metadata(..).parse(..)
Parse(md) ==
    IF md.id \in DOMAIN Protocol /\ Len(md.body) >= Protocol[md.id]
    THEN [ok |-> TRUE, pkt |-> [id |-> md.id, fields |-> SubSeq(md.body, 1, Protocol[md.id])]]
    ELSE [ok |-> FALSE, pkt |-> [id |-> md.id, fields |-> <<>>]]

(***************************************************************************)
(* Pipeline Driver: the body of the while loop of run_with_capture         *)
(***************************************************************************)
\* lines 164-171: does this frame go through buffer.reorder?
ShouldReorder(last, header) ==
    /\ last # None
    /\ last[1].source_ip = header.source_ip
    /\ last[1].seq_num < header.seq_num

\* lines 164-176: the buffer handed to the framer
Reassemble(buf, last, header) ==
    IF ShouldReorder(last, header)
    THEN Reorder(buf, header.body)
    ELSE ExtendFromSlice(buf, header.body)

SettleKeepsBufferOnMalformed(res, buf, last, header) ==
    CASE res.kind = "Incomplete" ->
            [buffer |-> buf, last_packet_header |-> Some(header)]
      [] res.kind = "Malformed" ->
            [buffer |-> buf, last_packet_header |-> last]
      [] res.kind = "Ready" ->
            [buffer |-> Clear(buf), last_packet_header |-> None]

SettleKeepsHeaderOnReady(res, buf, last, header) ==
    CASE res.kind = "Incomplete" ->
            [buffer |-> buf, last_packet_header |-> Some(header)]
      [] res.kind = "Malformed" ->
            [buffer |-> Clear(buf), last_packet_header |-> last]
      [] res.kind = "Ready" ->
            [buffer |-> Clear(buf), last_packet_header |-> last]

SettleForgetsHeaderOnIncomplete(res, buf, last, header) ==
    CASE res.kind = "Incomplete" ->
            [buffer |-> buf, last_packet_header |-> last]
      [] res.kind = "Malformed" ->
            [buffer |-> Clear(buf), last_packet_header |-> last]
      [] res.kind = "Ready" ->
            [buffer |-> Clear(buf), last_packet_header |-> None]

\* lines 178-192: buffer and remembered header after the framing outcome
Settle(res, buf, last, header) ==
    CASE res.kind = "Incomplete" ->
            [buffer |-> buf, last_packet_header |-> Some(header)]
      [] res.kind = "Malformed" ->
            [buffer |-> Clear(buf), last_packet_header |-> last]
      [] res.kind = "Ready" ->
            [buffer |-> Clear(buf), last_packet_header |-> None]

NoneRan == [framer |-> 0, decoder |-> 0, notify |-> 0, calls |-> 0]
Fate(res) == CASE res.kind = "Incomplete" -> "incomplete"
               [] res.kind = "Malformed" -> "malformed"
               [] res.kind = "Ready" -> "ready"

\* lines 157-161: header extraction failed, continue with the next frame
DroppedFrame(buf, last) ==
    [buffer |-> buf, last_packet_header |-> last, fate |-> "dropped",
     reorder |-> FALSE, scanned |-> <<>>, metadata |-> None, framer |-> 0]

\* lines 162-192: a frame whose header was extracted
ExtractedFrame(header, buf, last) ==
    LET merged == Reassemble(buf, last, header)
        res == FromBuffer(GetRemaining(merged))
        after == Settle(res, merged, last, header)
    IN [buffer |-> after.buffer, last_packet_header |-> after.last_packet_header,
        fate |-> Fate(res), reorder |-> ShouldReorder(last, header),
        scanned |-> GetRemaining(merged),
        metadata |-> IF res.kind = "Ready" THEN Some(res.md) ELSE None,
        framer |-> 1]

IngestFrameClearsOnBadHeader(raw, buf, last) ==
    IF FromVec(raw) = None
    THEN DroppedFrame(Clear(buf), None)
    ELSE ExtractedFrame(FromVec(raw)[1], buf, last)

\* lines 157-192: one frame, from header extraction to the framing outcome
IngestFrame(raw, buf, last) ==
    IF FromVec(raw) = None
    THEN DroppedFrame(buf, last)
    ELSE ExtractedFrame(FromVec(raw)[1], buf, last)

PcAfterFrameBreaksOnBadHeader(r) ==
    IF r.fate = "dropped" THEN "stopped"
    ELSE IF r.metadata # None THEN "check" ELSE "wait"

\* lines 160, 178-189: where the loop goes after the framing outcome: on to
\* the subscriber check for a Ready message, else back to cap.next_packet()
PcAfterFrame(r) == IF r.metadata # None THEN "check" ELSE "wait"

(***************************************************************************)
(* Protocol Schema Catalog: protocol.rs                                    *)
(***************************************************************************)
\* the class_name strings of a file; attributes stands for the field map
ClassNames == {"Foo", "Bar"}
FileRecords ==
    [id : {None} \cup {Some(i) : i \in EventIds},
     class_name : ClassNames,
     attributes : {0, 1}]

RECURSIVE FilesUpTo(_)
FilesUpTo(n) ==
    IF n = 0 THEN {<<>>}
    ELSE FilesUpTo(n - 1)
            \cup {Append(f, r) : f \in {g \in FilesUpTo(n - 1) : Len(g) = n - 1},
                                 r \in FileRecords}

ProtocolFiles == FilesUpTo(MaxRecords)

\* enum EventName has the one variant Unknown, marked #[serde(other)]: every
\* class_name string deserializes to it
DeserializeName(class_name) == "Unknown"

\* serde_json::from_str for one record
Deserialize(rec) ==
    [id |-> rec.id, name |-> DeserializeName(rec.class_name),
     attributes |-> rec.attributes]

EmptyMap == [k \in {} |-> 0]

\* HashMap::insert
Insert(map, key, value) ==
    [k \in DOMAIN map \cup {key} |-> IF k = key THEN value ELSE map[k]]

RECURSIVE InsertFirst(_, _)
InsertFirst(file, map) ==
    IF file = <<>> THEN map
    ELSE LET event == Deserialize(Head(file))
         IN InsertFirst(Tail(file),
                IF event.id # None /\ event.id[1] \notin DOMAIN map
                THEN Insert(map, event.id[1], event) ELSE map)

load_protocol_keeps_first(file) == InsertFirst(file, EmptyMap)

\* lines 67-71: the for loop over the records in file order
RECURSIVE InsertEvents(_, _)
InsertEvents(file, map) ==
    IF file = <<>> THEN map
    ELSE LET event == Deserialize(Head(file))
         IN InsertEvents(Tail(file),
                IF event.id # None THEN Insert(map, event.id[1], event) ELSE map)

load_protocol(file) == InsertEvents(file, EmptyMap)

\* the orders in which HashMap::iter can yield the keys of a map
IterationOrders(keys) ==
    {o \in [1 .. Cardinality(keys) -> keys] :
        \A i, j \in 1 .. Cardinality(keys) : i # j => o[i] # o[j]}

\* lines 78-84: the fold over event_by_id.iter(), in the order it yields
RECURSIVE FoldByClass(_, _, _)
FoldByClass(event_by_id, order, map) ==
    IF order = <<>> THEN map
    ELSE FoldByClass(event_by_id, Tail(order),
            Insert(map, event_by_id[Head(order)].name, Head(order)))

get_event(manager, id) ==
    IF id \in DOMAIN manager.event_by_id
    THEN Some(manager.event_by_id[id]) ELSE None

get_event_by_class(manager, class) ==
    IF class \in DOMAIN manager.event_by_class
    THEN get_event(manager, manager.event_by_class[class]) ELSE None

\* callbacks that call back into the PacketListener that invokes them
ReentrantCallbacks == {"r"}

TimeAfterPullOfExtractedFrame(raw, time, now) ==
    IF FromVec(raw) = None THEN time ELSE now

\* lines 150-155: the write of SystemTime::now() into last_packet_time, the
\* first statement of the loop body; now is the arrival of the frame pulled
TimeAfterPull(raw, time, now) == now

(***************************************************************************)
(* Initial states                                                          *)
(***************************************************************************)
InitSession(subs, file) ==
    /\ subscriptions = subs
    /\ node = FALSE
    /\ poisoned = FALSE
    /\ lock = "free"
    /\ cur = None
    /\ idx = 0
    /\ invoked = <<>>
    /\ pc = "idle"
    /\ buffer = <<>>
    /\ last_packet_header = None
    /\ metadata = None
    /\ packet = None
    /\ log = <<>>
    /\ ran = NoneRan
    /\ api_log = <<>>
    /\ last_packet_time = 0
    /\ blocked = FALSE
    /\ acquired = None
    /\ stable = <<>>
    /\ delivered = <<>>
    /\ protocol_file = file
    /\ protocol_manager = None
    /\ previous_manager = None

InitWith(subs) == InitSession(subs, <<>>)

\* registries an application has set up when it starts a capture session
SessionRegistries ==
    { EmptyRegistry,
      subscribe(EmptyRegistry, 1, "a", "f"),
      unsubscribe(subscribe(EmptyRegistry, 1, "a", "f"), 1, "a"),
      subscribe(subscribe(EmptyRegistry, 1, "a", "f"), 1, "b", "f"),
      subscribe(EmptyRegistry, 2, "a", "f") }

Init == \E subs \in SessionRegistries : InitWith(subs)

InitDispatcher == InitWith(EmptyRegistry)

(***************************************************************************)
(* Actions                                                                 *)
(***************************************************************************)
dispatcherVars == <<subscriptions, poisoned, lock, cur, idx, invoked, api_log>>
driverVars == <<pc, buffer, last_packet_header, metadata, packet, log, ran>>
historyVars == <<acquired, stable, delivered>>
catalogVars == <<protocol_file, protocol_manager, previous_manager>>

SetNode ==
    /\ ~node
    /\ node' = TRUE
    /\ UNCHANGED <<dispatcherVars, driverVars, last_packet_time, blocked,
                   historyVars, catalogVars>>

\* run_with_capture: spawns the ingest task (Err when no node is set)
Run ==
    /\ pc = "idle"
    /\ node
    /\ pc' = "wait"
    /\ UNCHANGED <<node, dispatcherVars, buffer, last_packet_header, metadata,
                   packet, log, ran, last_packet_time, blocked, historyVars,
                   catalogVars>>

\* cap.next_packet() returned Ok: lines 148-192 for one frame
NextPacket(raw) ==
    /\ pc = "wait"
    /\ Len(log) < MaxFrames
    /\ LET r == IngestFrame(raw, buffer, last_packet_header)
       IN /\ buffer' = r.buffer
          /\ last_packet_header' = r.last_packet_header
          /\ metadata' = r.metadata
          /\ pc' = PcAfterFrame(r)
          /\ ran' = [NoneRan EXCEPT !.framer = r.framer]
          /\ log' = Append(log, [raw |-> raw, fate |-> r.fate,
                                 reorder |-> r.reorder, scanned |-> r.scanned])
    /\ last_packet_time' = TimeAfterPull(raw, last_packet_time, Len(log) + 1)
    /\ invoked' = IF lock = "free" THEN <<>> ELSE invoked
    /\ packet' = None
    /\ stable' = <<>>
    /\ delivered' = <<>>
    /\ UNCHANGED <<node, subscriptions, poisoned, lock, cur, idx, api_log,
                   blocked, acquired, catalogVars>>

\* cap.next_packet() returned Err: the while loop ends
EndOfStream ==
    /\ pc = "wait"
    /\ pc' = "stopped"
    /\ UNCHANGED <<node, dispatcherVars, buffer, last_packet_header, metadata,
                   packet, log, ran, last_packet_time, blocked, historyVars,
                   catalogVars>>

\* lines 193-212: the subscriber check under the lock, then the decoder
CheckSubscribers ==
    /\ pc = "check"
    /\ lock = "free"
    /\ ~poisoned
    /\ LET md == metadata[1]
           parsed == Parse(md)
       IN IF ~has_subscriptions(subscriptions, md.id)
          THEN /\ pc' = "wait"
               /\ UNCHANGED <<packet, ran, stable>>
          ELSE /\ ran' = [ran EXCEPT !.decoder = @ + 1]
               /\ IF parsed.ok
                  THEN /\ packet' = Some(parsed.pkt)
                       /\ pc' = "notify"
                       /\ stable' = Listeners(subscriptions, md.id)
                  ELSE /\ packet' = None
                       /\ pc' = "wait"
                       /\ UNCHANGED stable
    /\ metadata' = None
    /\ UNCHANGED <<node, dispatcherVars, buffer, last_packet_header, log,
                   last_packet_time, blocked, acquired, delivered, catalogVars>>

\* line 201: the ingest task takes the lock for _notify
NotifyAcquire ==
    /\ pc = "notify"
    /\ lock = "free"
    /\ ~poisoned
    /\ lock' = "ingest"
    /\ cur' = packet
    /\ idx' = 1
    /\ invoked' = <<>>
    /\ packet' = None
    /\ pc' = "calling"
    /\ ran' = [ran EXCEPT !.notify = @ + 1]
    /\ acquired' = Some(Listeners(subscriptions, packet[1].id))
    /\ UNCHANGED <<node, subscriptions, poisoned, api_log, buffer,
                   last_packet_header, metadata, log, last_packet_time, blocked,
                   stable, delivered, catalogVars>>

\* lines 66-72: notify called from outside the ingest task
PublicNotify(p) ==
    /\ lock = "free"
    /\ ~poisoned
    /\ node
    /\ lock' = "caller"
    /\ cur' = Some(p)
    /\ idx' = 1
    /\ invoked' = <<>>
    /\ acquired' = Some(Listeners(subscriptions, p.id))
    /\ UNCHANGED <<node, subscriptions, poisoned, api_log, driverVars,
                   last_packet_time, blocked, stable, delivered, catalogVars>>

\* lines 66-72 with no node set: unwrap panics while the MutexGuard is alive
PublicNotifyPanic ==
    /\ lock = "free"
    /\ ~poisoned
    /\ ~node
    /\ poisoned' = TRUE
    /\ UNCHANGED <<node, subscriptions, lock, cur, idx, invoked, api_log,
                   driverVars, last_packet_time, blocked, historyVars, catalogVars>>

\* lines 77-79: one iteration of _notify's for loop
InvokeListener ==
    /\ lock # "free"
    /\ ~blocked
    /\ idx <= Len(NotifyList(subscriptions, cur[1]))
    /\ NotifyList(subscriptions, cur[1])[idx][2] \notin ReentrantCallbacks
    /\ invoked' = Append(invoked, NotifyList(subscriptions, cur[1])[idx])
    /\ idx' = idx + 1
    /\ ran' = IF lock = "ingest" THEN [ran EXCEPT !.calls = @ + 1] ELSE ran
    /\ delivered' = IF lock = "ingest"
                    THEN Append(delivered, NotifyList(subscriptions, cur[1])[idx])
                    ELSE delivered
    /\ UNCHANGED <<node, subscriptions, poisoned, lock, cur, api_log, pc, buffer,
                   last_packet_header, metadata, packet, log, last_packet_time,
                   blocked, acquired, stable, catalogVars>>

\* a reentrant Mutex: the callback's subscribe takes effect and the callback
\* returns
InvokeReentrantReturns ==
    /\ lock # "free"
    /\ ~blocked
    /\ idx <= Len(NotifyList(subscriptions, cur[1]))
    /\ NotifyList(subscriptions, cur[1])[idx][2] \in ReentrantCallbacks
    /\ invoked' = Append(invoked, NotifyList(subscriptions, cur[1])[idx])
    /\ idx' = idx + 1
    /\ subscriptions' = subscribe(subscriptions, cur[1].id, "c", "f")
    /\ ran' = IF lock = "ingest" THEN [ran EXCEPT !.calls = @ + 1] ELSE ran
    /\ delivered' = IF lock = "ingest"
                    THEN Append(delivered, NotifyList(subscriptions, cur[1])[idx])
                    ELSE delivered
    /\ UNCHANGED <<node, poisoned, lock, cur, api_log, pc, buffer,
                   last_packet_header, metadata, packet, log, last_packet_time,
                   blocked, acquired, stable, catalogVars>>

\* lines 77-79 with a callback that calls subscribe, unsubscribe or notify on
\* the same PacketListener: lines 46, 56, 68 lock the std Mutex this thread
\* already holds inside _notify, and the call never returns
InvokeReentrant ==
    /\ lock # "free"
    /\ ~blocked
    /\ idx <= Len(NotifyList(subscriptions, cur[1]))
    /\ NotifyList(subscriptions, cur[1])[idx][2] \in ReentrantCallbacks
    /\ invoked' = Append(invoked, NotifyList(subscriptions, cur[1])[idx])
    /\ blocked' = TRUE
    /\ ran' = IF lock = "ingest" THEN [ran EXCEPT !.calls = @ + 1] ELSE ran
    /\ delivered' = IF lock = "ingest"
                    THEN Append(delivered, NotifyList(subscriptions, cur[1])[idx])
                    ELSE delivered
    /\ UNCHANGED <<node, subscriptions, poisoned, lock, cur, idx, api_log, pc,
                   buffer, last_packet_header, metadata, packet, log,
                   last_packet_time, acquired, stable, catalogVars>>

\* _notify returns and the MutexGuard is dropped
NotifyReturn ==
    /\ lock # "free"
    /\ ~blocked
    /\ idx > Len(NotifyList(subscriptions, cur[1]))
    /\ lock' = "free"
    /\ cur' = None
    /\ idx' = 0
    /\ invoked' = <<>>
    /\ pc' = IF lock = "ingest" THEN "wait" ELSE pc
    /\ acquired' = None
    /\ UNCHANGED <<node, subscriptions, poisoned, api_log, buffer,
                   last_packet_header, metadata, packet, log, ran,
                   last_packet_time, blocked, stable, delivered, catalogVars>>

Remember(call) ==
    IF Len(api_log) < 2 THEN Append(api_log, call)
    ELSE Append(Tail(api_log), call)

Subscribe(event, listener_id, listener) ==
    /\ lock = "free"
    /\ ~poisoned
    /\ TotalEntries(subscriptions) < MaxSubs
    /\ subscriptions' = subscribe(subscriptions, event, listener_id, listener)
    /\ api_log' = Remember([op |-> "subscribe", event |-> event,
                            listener_id |-> listener_id, before |-> subscriptions])
    /\ UNCHANGED <<node, poisoned, lock, cur, idx, invoked, driverVars,
                   last_packet_time, blocked, historyVars, catalogVars>>

\* the entries of the list the subscriber check saw that an unsubscribe
\* between the check and _notify leaves subscribed
StillSubscribed(list, event, listener_id) ==
    IF pc = "notify" /\ packet[1].id = event
    THEN SelectSeq(list, LAMBDA s : s[1] # listener_id)
    ELSE list

\* a registry that is not behind the Mutex
UnsubscribeWithoutLock(event, listener_id) ==
    /\ ~poisoned
    /\ subscriptions' = unsubscribe(subscriptions, event, listener_id)
    /\ api_log' = Remember([op |-> "unsubscribe", event |-> event,
                            listener_id |-> listener_id, before |-> subscriptions])
    /\ stable' = StillSubscribed(stable, event, listener_id)
    /\ UNCHANGED <<node, poisoned, lock, cur, idx, invoked, driverVars,
                   last_packet_time, blocked, acquired, delivered, catalogVars>>

Unsubscribe(event, listener_id) ==
    /\ lock = "free"
    /\ ~poisoned
    /\ subscriptions' = unsubscribe(subscriptions, event, listener_id)
    /\ api_log' = Remember([op |-> "unsubscribe", event |-> event,
                            listener_id |-> listener_id, before |-> subscriptions])
    /\ stable' = StillSubscribed(stable, event, listener_id)
    /\ UNCHANGED <<node, poisoned, lock, cur, idx, invoked, driverVars,
                   last_packet_time, blocked, acquired, delivered, catalogVars>>

\* ProtocolManager::new on the protocol file; a later call builds the
\* manager again from the same file
NewProtocolManager ==
    /\ previous_manager = None
    /\ \E order \in IterationOrders(DOMAIN load_protocol(protocol_file)) :
          protocol_manager' =
              Some([event_by_id |-> load_protocol(protocol_file),
                    event_by_class |->
                        FoldByClass(load_protocol(protocol_file),
                                    [i \in 1 .. Len(order) |-> order[i]], EmptyMap)])
    /\ previous_manager' = protocol_manager
    /\ UNCHANGED <<node, dispatcherVars, driverVars, last_packet_time, blocked,
                   historyVars, protocol_file>>

(***************************************************************************)
(* Specifications                                                          *)
(***************************************************************************)
\* one capture session over a registry set up before it
Next ==
    \/ SetNode
    \/ Run
    \/ \E raw \in RawFrames : NextPacket(raw)
    \/ EndOfStream
    \/ CheckSubscribers
    \/ NotifyAcquire
    \/ InvokeListener
    \/ NotifyReturn

Spec == Init /\ [][Next]_vars

\* the dispatcher's public surface driven by external callers
Packets == [id : EventIds, fields : {<<>>}]

NextDispatcher ==
    \/ SetNode
    \/ \E e \in EventIds, l \in ListenerIds, cb \in Callbacks : Subscribe(e, l, cb)
    \/ \E e \in EventIds, l \in ListenerIds : Unsubscribe(e, l)
    \/ \E p \in Packets : PublicNotify(p)
    \/ PublicNotifyPanic
    \/ InvokeListener
    \/ NotifyReturn

SpecDispatcher == InitDispatcher /\ [][NextDispatcher]_vars

\* a capture session with external callers working on the registry meanwhile
Frame(body) == [valid |-> TRUE, source_ip |-> 1, seq_num |-> 1, body |-> body]

ConcurrentFrames ==
    {BadFrame, Frame(<<1>>), Frame(<<1, 0>>), Frame(<<1, 1, 0>>)}

ConcurrentRegistries ==
    { EmptyRegistry,
      subscribe(subscribe(EmptyRegistry, 1, "a", "f"), 1, "b", "f"),
      subscribe(subscribe(EmptyRegistry, 1, "a", "f"), 1, "b", "r"),
      subscribe(subscribe(EmptyRegistry, 1, "b", "r"), 1, "a", "f") }

InitConcurrent == \E subs \in ConcurrentRegistries : InitWith(subs)

NextConcurrent ==
    \/ SetNode
    \/ Run
    \/ \E raw \in ConcurrentFrames : NextPacket(raw)
    \/ EndOfStream
    \/ CheckSubscribers
    \/ NotifyAcquire
    \/ InvokeListener
    \/ InvokeReentrant
    \/ NotifyReturn
    \/ Subscribe(1, "a", "f")
    \/ \E l \in {"a", "b"} : Unsubscribe(1, l)
    \/ PublicNotify([id |-> 1, fields |-> <<>>])

SpecConcurrent == InitConcurrent /\ [][NextConcurrent]_vars

\* the catalog built, and built again, from one protocol file
InitCatalog == \E file \in ProtocolFiles : InitSession(EmptyRegistry, file)

NextCatalog == NewProtocolManager

SpecCatalog == InitCatalog /\ [][NextCatalog]_vars

(***************************************************************************)
(* Reading the history                                                     *)
(***************************************************************************)
RECURSIVE Concat(_)
Concat(ss) == IF ss = <<>> THEN <<>> ELSE Head(ss) \o Concat(Tail(ss))

Bodies(frames) == [i \in 1 .. Len(frames) |-> frames[i].raw.body]

\* the frames whose header was extracted, in arrival order
Extracted == SelectSeq(log, LAMBDA r : r.fate # "dropped")

Cleared(r) == r.fate \in {"malformed", "ready"}

\* the extracted frames since the buffer was last cleared before the latest
\* one: those whose payloads the latest framing saw
CurrentRun ==
    LET s == Extracted
        cl == {i \in 1 .. Len(s) - 1 : Cleared(s[i])}
        first == IF cl = {} THEN 1 ELSE (CHOOSE i \in cl : \A j \in cl : j <= i) + 1
    IN SubSeq(s, first, Len(s))

OneSource(frames) ==
    \A i, j \in 1 .. Len(frames) : frames[i].raw.source_ip = frames[j].raw.source_ip

NonDecreasing(frames) ==
    \A i \in 1 .. Len(frames) - 1 : frames[i].raw.seq_num <= frames[i + 1].raw.seq_num

Increasing(frames) ==
    \A i \in 1 .. Len(frames) - 1 : frames[i].raw.seq_num < frames[i + 1].raw.seq_num

AllIncomplete(frames) == \A i \in 1 .. Len(frames) : frames[i].fate = "incomplete"

FrameSettled == pc \in {"wait", "stopped"}

(***************************************************************************)
(* C1..C10                                                                 *)
(***************************************************************************)
\* C1: after a run of frames from one source with non-decreasing sequence
\* numbers, all of which framed Incomplete, the buffer is the concatenation
\* of their payloads in arrival order.
C1_InOrderConcatenation ==
    LET run == CurrentRun IN
    (run # <<>> /\ AllIncomplete(run) /\ OneSource(run) /\ NonDecreasing(run))
        => buffer = Concat(Bodies(run))

\* C2: when the second of two frames from one source precedes the first
\* (which framed Incomplete) in sequence number, the driver sends it through
\* reorder and the framer sees the second payload followed by the first.
C2_OutOfOrderIsReordered ==
    LET run == CurrentRun IN
    (/\ Len(run) = 2
     /\ run[1].fate = "incomplete"
     /\ OneSource(run)
     /\ run[2].raw.seq_num < run[1].raw.seq_num)
        => /\ run[2].reorder
           /\ run[2].scanned = run[2].raw.body \o run[1].raw.body

\* C3: one well-formed, decodable message of event E split over three
\* in-order frames of one source frames Incomplete, Incomplete, Ready; it is
\* dispatched exactly once when E has a listener, and not at all (with the
\* buffer nevertheless empty) when E has none.
C3_ThreeFrameMessage ==
    LET run == CurrentRun
        b == Bodies(run)
        msg == Concat(b)
        whole == FromBuffer(msg)
    IN
    (/\ FrameSettled
     /\ log # <<>> /\ log[Len(log)].fate # "dropped"
     /\ Len(run) = 3 /\ OneSource(run) /\ Increasing(run)
     /\ \A i \in 1 .. 3 : b[i] # <<>>
     /\ FromBuffer(b[1]).kind = "Incomplete"
     /\ FromBuffer(b[1] \o b[2]).kind = "Incomplete"
     /\ whole.kind = "Ready"
     /\ Parse(whole.md).ok)
        => /\ run[1].fate = "incomplete" /\ run[2].fate = "incomplete"
           /\ run[3].fate = "ready"
           /\ buffer = <<>>
           /\ IF Len(Listeners(subscriptions, whole.md.id)) > 0
              THEN ran.notify = 1
                   /\ ran.calls = Len(Listeners(subscriptions, whole.md.id))
              ELSE ran.notify = 0 /\ ran.calls = 0

\* C4: after a frame that framed Malformed the buffer is empty.
C4_MalformedClearsBuffer ==
    (Extracted # <<>> /\ Extracted[Len(Extracted)].fate = "malformed")
        => buffer = <<>>

\* a reorder-merged frame framed Malformed over a buffer that held bytes
C4_Witness ==
    /\ Extracted # <<>>
    /\ LET r == Extracted[Len(Extracted)]
       IN r.fate = "malformed" /\ r.reorder /\ Len(r.scanned) > Len(r.raw.body)
    /\ buffer = <<>>

\* C5: after a frame that framed Malformed no previous header is
\* remembered, and the frame after it is appended, never sent through reorder.
C5_MalformedForgetsHeader ==
    /\ (Extracted # <<>> /\ Extracted[Len(Extracted)].fate = "malformed")
          => last_packet_header = None
    /\ \A i \in 2 .. Len(Extracted) :
          Extracted[i - 1].fate = "malformed" => ~Extracted[i].reorder

\* C6: after a frame that framed Ready the buffer is empty and no header is
\* remembered, through the subscriber check, the decoder and the dispatch.
C6_ReadyClearsBufferAndHeader ==
    (Extracted # <<>> /\ Extracted[Len(Extracted)].fate = "ready")
        => buffer = <<>> /\ last_packet_header = None

\* a Ready message built from two frames whose decoding failed
C6_Witness ==
    /\ Extracted # <<>> /\ Extracted[Len(Extracted)].fate = "ready"
    /\ Len(CurrentRun) >= 2
    /\ pc = "wait" /\ ran.decoder = 1 /\ ran.notify = 0
    /\ \E e \in EventIds : Len(Listeners(subscriptions, e)) > 0

\* C7: a frame whose header cannot be extracted leaves the buffer and the
\* remembered header as they were, runs neither framer, decoder nor
\* listeners, and leaves the driver waiting for the next frame.
C7_BadFrameDropped ==
    [][(Len(log') = Len(log) + 1 /\ ~log'[Len(log')].raw.valid)
          => /\ buffer' = buffer
             /\ last_packet_header' = last_packet_header
             /\ ran' = NoneRan
             /\ invoked' = <<>> /\ lock' = lock /\ metadata' = metadata
             /\ pc' = "wait"]_vars

C7_Witness ==
    /\ log # <<>> /\ ~log[Len(log)].raw.valid
    /\ buffer # <<>> /\ last_packet_header # None
    /\ pc = "wait"

\* C8: while _notify runs for a packet of event E it has called exactly the
\* entries of E's list before its position, in list order; when its loop
\* ends it has called each entry of E once and no other.
C8_NotifyCallsListInOrder ==
    lock # "free" =>
        LET L == Listeners(subscriptions, cur[1].id)
        IN /\ idx \in 1 .. Len(L) + 1
           /\ invoked = SubSeq(L, 1, idx - 1)

C8_Witness ==
    /\ lock = "caller"
    /\ LET L == Listeners(subscriptions, cur[1].id)
       IN /\ idx = Len(L) + 1 /\ Len(L) >= 2 /\ L[1] # L[2]
          /\ invoked = L
    /\ \E e \in DOMAIN subscriptions :
          /\ e # cur[1].id
          /\ \E i \in 1 .. Len(subscriptions[e]) :
                \A j \in 1 .. Len(invoked) : subscriptions[e][i] # invoked[j]

\* C9: a Ready message whose event has no listener entry (no key, or a list
\* emptied by unsubscribe) reaches neither the decoder nor notify, and
\* has_subscriptions is true exactly of the events with at least one entry.
C9_NoSubscriberNoDecode ==
    /\ \A e \in EventIds :
          has_subscriptions(subscriptions, e) <=> Len(Listeners(subscriptions, e)) >= 1
    /\ (/\ FrameSettled
        /\ log # <<>> /\ log[Len(log)].fate = "ready"
        /\ Len(Listeners(subscriptions, FromBuffer(log[Len(log)].scanned).md.id)) = 0)
          => ran.decoder = 0 /\ ran.notify = 0 /\ ran.calls = 0

C9_Witness ==
    /\ pc = "wait"
    /\ log # <<>> /\ log[Len(log)].fate = "ready"
    /\ LET e == FromBuffer(log[Len(log)].scanned).md.id
       IN e \in DOMAIN subscriptions /\ subscriptions[e] = <<>>
    /\ ran.decoder = 0 /\ ran.notify = 0

\* C10: subscribe(E, L) directly followed by unsubscribe(E, L) leaves
\* has_subscriptions_for(E, L) false, keeps E's entries of other listener
\* ids in content and order, keeps every other event's list, and keeps E
\* as a key.
SubscribeThenUnsubscribe ==
    /\ Len(api_log) = 2
    /\ api_log[1].op = "subscribe" /\ api_log[2].op = "unsubscribe"
    /\ api_log[1].event = api_log[2].event
    /\ api_log[1].listener_id = api_log[2].listener_id

C10_SubscribeUnsubscribe ==
    SubscribeThenUnsubscribe =>
        LET E == api_log[1].event
            L == api_log[1].listener_id
            before == api_log[1].before
        IN /\ ~has_subscriptions_for(subscriptions, E, L)
           /\ E \in DOMAIN subscriptions
           /\ subscriptions[E] = SelectSeq(Listeners(before, E), LAMBDA s : s[1] # L)
           /\ DOMAIN subscriptions = DOMAIN before \cup {E}
           /\ \A e \in DOMAIN before \ {E} : subscriptions[e] = before[e]

C10_Witness ==
    /\ SubscribeThenUnsubscribe
    /\ LET E == api_log[1].event
           L == api_log[1].listener_id
           before == api_log[1].before
       IN /\ Len(subscriptions[E]) >= 2
          /\ subscriptions[E][1] # subscriptions[E][2]
          /\ \E e \in DOMAIN before \ {E} : Len(before[e]) >= 1

(***************************************************************************)
(* C11..C20                                                                *)
(***************************************************************************)
LastCall == api_log[Len(api_log)]

EntriesOf(list, listener_id) == SelectSeq(list, LAMBDA s : s[1] = listener_id)

\* C11: unsubscribe(E, L) removes every entry of L under E and nothing
\* else; when L has no entry under E (or E was never subscribed) the
\* registry is unchanged; a second identical unsubscribe changes nothing.
C11_UnsubscribeRemovesAll ==
    (api_log # <<>> /\ LastCall.op = "unsubscribe") =>
        LET E == LastCall.event
            L == LastCall.listener_id
            before == LastCall.before
        IN /\ DOMAIN subscriptions = DOMAIN before
           /\ \A e \in DOMAIN before :
                 subscriptions[e] =
                    IF e = E THEN SelectSeq(before[e], LAMBDA s : s[1] # L)
                    ELSE before[e]
           /\ ~has_subscriptions_for(before, E, L) => subscriptions = before
           /\ (/\ Len(api_log) = 2
               /\ api_log[1].op = "unsubscribe"
               /\ api_log[1].event = E /\ api_log[1].listener_id = L)
                 => subscriptions = before

\* unsubscribe removed two entries of L and left another listener's entry
C11_Witness ==
    /\ api_log # <<>> /\ LastCall.op = "unsubscribe"
    /\ LET E == LastCall.event
           L == LastCall.listener_id
           before == LastCall.before
       IN /\ Len(EntriesOf(Listeners(before, E), L)) >= 2
          /\ Len(Listeners(subscriptions, E)) >= 1

\* C12: subscribe(E, L, cb) appends one entry of L at the end of E's list
\* and changes nothing else, whether or not L already has entries there.
C12_SubscribeAppendsOne ==
    (api_log # <<>> /\ LastCall.op = "subscribe") =>
        LET E == LastCall.event
            L == LastCall.listener_id
            before == LastCall.before
            old == Listeners(before, E)
        IN /\ DOMAIN subscriptions = DOMAIN before \cup {E}
           /\ Len(subscriptions[E]) = Len(old) + 1
           /\ SubSeq(subscriptions[E], 1, Len(old)) = old
           /\ subscriptions[E][Len(old) + 1][1] = L
           /\ \A e \in DOMAIN before \ {E} : subscriptions[e] = before[e]

\* the same listener id subscribed twice in a row: both entries are kept
C12_Witness ==
    /\ Len(api_log) = 2
    /\ api_log[1].op = "subscribe" /\ api_log[2].op = "subscribe"
    /\ api_log[1].event = api_log[2].event
    /\ api_log[1].listener_id = api_log[2].listener_id
    /\ LET E == api_log[1].event
           L == api_log[1].listener_id
       IN /\ Len(subscriptions[E]) = Len(Listeners(api_log[1].before, E)) + 2
          /\ Len(EntriesOf(subscriptions[E], L)) >= 2
          /\ Len(Listeners(api_log[1].before, E)) >= 1

\* the list _notify iterates over while the lock is held
Iterated == Listeners(subscriptions, cur[1].id)

\* C13: listeners are called only while the ingest task holds the registry
\* lock; when the callback called re-enters the dispatcher the ingest task
\* blocks, and from then on it keeps the lock for ever, processes no further
\* frame, and no external subscribe or unsubscribe takes effect.
C13_ReentrantCallbackDeadlocks ==
    [][/\ Len(delivered') > Len(delivered) => (lock = "ingest" /\ lock' = "ingest")
       /\ (/\ lock = "ingest" /\ ~blocked /\ idx <= Len(Iterated)
           /\ Iterated[idx][2] \in ReentrantCallbacks)
            => (blocked' /\ lock' = "ingest" /\ subscriptions' = subscriptions)
       /\ (blocked /\ lock = "ingest")
            => /\ blocked' /\ lock' = "ingest" /\ pc' = pc
               /\ log' = log /\ last_packet_time' = last_packet_time
               /\ subscriptions' = subscriptions /\ api_log' = api_log
               /\ delivered' = delivered]_vars

\* the ingest task stuck in a reentrant callback, with frames left to pull
\* and a listener after it in the list that is never called
C13_Witness ==
    /\ blocked /\ lock = "ingest" /\ pc = "calling"
    /\ Len(log) < MaxFrames
    /\ idx < Len(Iterated)
    /\ Iterated[idx][2] \in ReentrantCallbacks
    /\ delivered = SubSeq(Iterated, 1, idx)

\* C14: while a notify holds the registry lock, the list of its event is
\* the list at the moment the lock was taken, the listeners called so far
\* are that list's entries in order, all of them once the loop is through,
\* and a listener id whose unsubscribe for that event was the last call
\* before the lock was taken is not called.
C14_DispatchAtomic ==
    lock # "free" =>
        /\ acquired # None /\ cur # None
        /\ Iterated = acquired[1]
        /\ Len(invoked) = (IF blocked THEN idx ELSE idx - 1)
        /\ invoked = SubSeq(acquired[1], 1, Len(invoked))
        /\ idx > Len(acquired[1]) => invoked = acquired[1]
        /\ (/\ api_log # <<>> /\ LastCall.op = "unsubscribe"
            /\ LastCall.event = cur[1].id)
             => \A i \in 1 .. Len(invoked) : invoked[i][1] # LastCall.listener_id

\* a notify through with a list of two, taken right after an unsubscribe
\* that removed an entry of the event
C14_Witness ==
    /\ lock # "free" /\ ~blocked
    /\ idx > Len(acquired[1])
    /\ Len(invoked) >= 2
    /\ api_log # <<>> /\ LastCall.op = "unsubscribe"
    /\ LastCall.event = cur[1].id
    /\ Len(Listeners(LastCall.before, LastCall.event)) > Len(acquired[1])

C16_OnlyEndOfStreamStops ==
    [][/\ (pc # "stopped" /\ pc' = "stopped")
            => (pc = "wait" /\ log' = log /\ buffer' = buffer /\ ran' = ran)
       /\ Len(log') > Len(log) => pc' \in {"wait", "check"}
       /\ pc = "check" => pc' \in {"check", "wait", "notify"}
       /\ pc = "stopped"
            => /\ pc' = "stopped" /\ log' = log /\ ran' = ran
               /\ buffer' = buffer /\ last_packet_header' = last_packet_header
               /\ lock' # "ingest"]_vars

\* stopped after a bad or Malformed frame was followed by a dispatched message
C16_Witness ==
    /\ pc = "stopped"
    /\ Len(log) >= 2
    /\ log[1].fate \in {"dropped", "malformed"}
    /\ log[Len(log)].fate = "ready"
    /\ ran.calls >= 1

RECURSIVE IsSubsequence(_, _)
IsSubsequence(s, t) ==
    IF s = <<>> THEN TRUE
    ELSE IF t = <<>> THEN FALSE
    ELSE IF Head(s) = Head(t) THEN IsSubsequence(Tail(s), Tail(t))
    ELSE IsSubsequence(s, Tail(t))

\* the Ready message of the last frame was decoded
Decoded ==
    /\ log # <<>>
    /\ log[Len(log)].fate = "ready"
    /\ ran.decoder = 1
    /\ Parse(FromBuffer(log[Len(log)].scanned).md).ok

\* the place in the file of the last record with an id / with a class name
LastWithId(id) ==
    CHOOSE i \in 1 .. Len(protocol_file) :
        /\ protocol_file[i].id = Some(id)
        /\ \A j \in i + 1 .. Len(protocol_file) : protocol_file[j].id # Some(id)

HasId(id) == \E i \in 1 .. Len(protocol_file) : protocol_file[i].id = Some(id)

Named(name) ==
    {i \in 1 .. Len(protocol_file) :
        /\ DeserializeName(protocol_file[i].class_name) = name
        /\ protocol_file[i].id # None}

LastNamed(name) == CHOOSE i \in Named(name) : \A j \in Named(name) : j <= i

\* C17: after a load, get_event(id) yields the last record of the file with
\* that id for every id a record has, not-found for any other id, no record
\* without an id is in the id index, and a second load of the same file
\* builds an equal id index.
C17_IdIndexDeterministic ==
    protocol_manager # None =>
        LET m == protocol_manager[1]
        IN /\ \A id \in 0 .. 3 :
                 get_event(m, id) =
                     IF HasId(id)
                     THEN Some(Deserialize(protocol_file[LastWithId(id)]))
                     ELSE None
           /\ \A id \in DOMAIN m.event_by_id : m.event_by_id[id].id = Some(id)
           /\ previous_manager # None
                 => previous_manager[1].event_by_id = m.event_by_id

\* loaded twice from a file that repeats an id with another field map, has
\* a record without an id, and leaves an id unlisted
C17_Witness ==
    /\ protocol_manager # None /\ previous_manager # None
    /\ \E i, j \in 1 .. Len(protocol_file) :
          /\ i < j
          /\ protocol_file[i].id # None
          /\ protocol_file[i].id = protocol_file[j].id
          /\ protocol_file[i].attributes # protocol_file[j].attributes
    /\ \E i \in 1 .. Len(protocol_file) : protocol_file[i].id = None
    /\ \E id \in EventIds : ~HasId(id)

\* C18: after a load, get_event_by_class(name) yields the record stored
\* under the id of the last record of the file that has that name.
C18_LastRecordOfNameWins ==
    protocol_manager # None =>
        \A name \in {"Unknown"} :
            Named(name) # {} =>
                get_event_by_class(protocol_manager[1], name) =
                    get_event(protocol_manager[1],
                              protocol_file[LastNamed(name)].id[1])

\* C19: between the subscriber check and the notify of one Ready message
\* the ingest task does not hold the registry lock; still, the entries that
\* stay subscribed from the check on are all in the list notify takes, and
\* when notify has returned each of them was called once, in list order,
\* among exactly the entries of that list.
C19_StableListenersCalledOnce ==
    /\ pc = "notify" => (lock # "ingest" /\ Decoded /\ ran.notify = 0)
    /\ lock = "ingest"
         => /\ Decoded /\ ran.notify = 1
            /\ IsSubsequence(stable, acquired[1])
            /\ delivered = SubSeq(acquired[1], 1, Len(delivered))
            /\ (idx > Len(acquired[1]) /\ ~blocked) => delivered = acquired[1]
    /\ (Decoded /\ pc \in {"wait", "stopped"})
         => /\ ran.notify = 1
            /\ IsSubsequence(stable, delivered)
            /\ Len(delivered) = ran.calls

\* a message dispatched after an unsubscribe and a subscribe came between
\* the check and the notify: the entry that stayed was called, with another
C19_Witness ==
    /\ Decoded /\ pc = "wait"
    /\ stable # <<>>
    /\ Len(delivered) > Len(stable)
    /\ Len(api_log) = 2
    /\ api_log[1].op = "unsubscribe" /\ api_log[2].op = "subscribe"
    /\ Len(Listeners(api_log[1].before, 1)) > Len(stable)

\* C20: whenever the buffer holds bytes, the remembered header is that of
\* the latest extracted frame, and that frame framed Incomplete; a header
\* remembered from before the last clear goes with an empty buffer only.
C20_HeaderOfBufferedFrame ==
    buffer # <<>> =>
        /\ Extracted # <<>>
        /\ Extracted[Len(Extracted)].fate = "incomplete"
        /\ last_packet_header = FromVec(Extracted[Len(Extracted)].raw)

\* bytes buffered again after a Malformed frame had left a stale header
C20_Witness ==
    /\ buffer # <<>>
    /\ last_packet_header # None
    /\ \E i \in 1 .. Len(Extracted) - 1 :
          /\ Extracted[i].fate = "malformed"
          /\ i > 1 /\ Extracted[i - 1].fate = "incomplete"

====
